---- MODULE Spec2Model ----
(***************************************************************************)
(* edgar-fetch: Fetcher.get_indexed and the helpers of downloader/utils.py *)
(* (get_filing_urls_to_download, build_filing_metadata_from_hit,           *)
(* download_filings, download_and_save_filing, validate_date_format,       *)
(* get_number_of_unique_filings).                                          *)
(*                                                                         *)
(* Python strings are modelled as tuples of one-character strings, so that *)
(* slicing, splitting, replacing and the lexicographic comparison of str   *)
(* are computed as Python computes them.                                   *)
(***************************************************************************)
EXTENDS Integers, Sequences, FiniteSets, TLC

(***************************************************************************)
(* Bounds of the model.                                                    *)
(***************************************************************************)
\* longest remote result set (number of hits the service holds)
MaxRemote == 2
\* largest requested cap (count_of_filings)
MaxCount == 2
\* largest page: hits per response and largest reported query.size
MaxPage == 2
\* most search page requests of one call
MaxSearch == 2
\* longest details filename drawn for build_filing_metadata_from_hit
MaxName == 6

(***************************************************************************)
(* Python str primitives.                                                  *)
(***************************************************************************)
\* the characters the model uses, in code point order
Ascii ==
  << " ", "-", ".", "/", "0", "1", "2", "3", "4", "5", "6", "7", "8", "9",
     ":", "A", "K", "a", "b", "c", "d", "h", "l", "m", "t", "x" >>

Ord(c) == CHOOSE i \in 1..Len(Ascii) : Ascii[i] = c

Digits == << "0", "1", "2", "3", "4", "5", "6", "7", "8", "9" >>

IsDigit(c) == \E i \in 1..Len(Digits) : Digits[i] = c

DigitVal(c) == (CHOOSE i \in 1..Len(Digits) : Digits[i] = c) - 1

MinOf(a, b) == IF a < b THEN a ELSE b

\* str < str: lexicographic by code point, a proper prefix is smaller
StrLess(a, b) ==
  \E k \in 1..(MinOf(Len(a), Len(b)) + 1) :
     /\ \A j \in 1..(k - 1) : a[j] = b[j]
     /\ IF k > Len(a) THEN k <= Len(b)
        ELSE k <= Len(b) /\ Ord(a[k]) < Ord(b[k])

\* s.find(c) + 1: the first position of character c, 0 when absent
IndexOf(s, c) ==
  IF \E i \in 1..Len(s) : s[i] = c
  THEN CHOOSE i \in 1..Len(s) : s[i] = c /\ \A j \in 1..(i - 1) : s[j] # c
  ELSE 0

\* s.rfind(c) + 1: the last position of character c, 0 when absent
LastIndexOf(s, c) ==
  IF \E i \in 1..Len(s) : s[i] = c
  THEN CHOOSE i \in 1..Len(s) : s[i] = c /\ \A j \in (i + 1)..Len(s) : s[j] # c
  ELSE 0

\* s.split(c, 1)
Split1(s, c) ==
  LET i == IndexOf(s, c)
  IN  IF i = 0 THEN << s >>
      ELSE << SubSeq(s, 1, i - 1), SubSeq(s, i + 1, Len(s)) >>

\* s.split(c)
RECURSIVE SplitAll(_, _)
SplitAll(s, c) ==
  LET i == IndexOf(s, c)
  IN  IF i = 0 THEN << s >>
      ELSE << SubSeq(s, 1, i - 1) >> \o SplitAll(SubSeq(s, i + 1, Len(s)), c)

StartsWith(s, p) == Len(s) >= Len(p) /\ SubSeq(s, 1, Len(p)) = p

\* s.replace(old, new, count): left to right, non-overlapping, at most count
\* replacements (count < 0: all of them)
RECURSIVE StrReplace(_, _, _, _)
StrReplace(s, old, new, count) ==
  IF s = << >> \/ count = 0 THEN s
  ELSE IF StartsWith(s, old)
       THEN new \o StrReplace(SubSeq(s, Len(old) + 1, Len(s)), old, new, count - 1)
       ELSE << s[1] >> \o StrReplace(SubSeq(s, 2, Len(s)), old, new, count)

\* s[-n:]
LastChars(s, n) == IF Len(s) <= n THEN s ELSE SubSeq(s, Len(s) - n + 1, Len(s))

\* pathlib.PurePath(name).suffix for a name without directory separators
PathSuffix(name) ==
  LET i == LastIndexOf(name, ".")
  IN  IF 1 < i /\ i < Len(name) THEN SubSeq(name, i, Len(name)) ELSE << >>

(***************************************************************************)
(* Dates: datetime.strptime(s, "%Y-%m-%d") and date.strftime("%Y-%m-%d").  *)
(***************************************************************************)
\* constants.DATE_FORMAT_TOKENS is "%Y-%m-%d": its literal separator
DateSeparator == "-"

\* constants.DEFAULT_AFTER_DATE, the earliest supported date
DEFAULT_AFTER_DATE == << 2000, 1, 1 >>

\* constants.DEFAULT_BEFORE_DATE, date.today() when the module is loaded
DEFAULT_BEFORE_DATE == << 2021, 6, 15 >>

IsLeap(y) == (y % 4 = 0 /\ y % 100 # 0) \/ y % 400 = 0

DaysIn(y, m) ==
  IF m = 2 THEN (IF IsLeap(y) THEN 29 ELSE 28)
  ELSE IF m \in {4, 6, 9, 11} THEN 30 ELSE 31

\* %Y: exactly four digits
YearField(p) == Len(p) = 4 /\ \A i \in 1..4 : IsDigit(p[i])

\* %m: 1[0-2] | 0[1-9] | [1-9]
MonthField(p) ==
  \/ Len(p) = 2 /\ p[1] = "1" /\ p[2] \in {"0", "1", "2"}
  \/ Len(p) = 2 /\ p[1] = "0" /\ IsDigit(p[2]) /\ p[2] # "0"
  \/ Len(p) = 1 /\ IsDigit(p[1]) /\ p[1] # "0"

\* %d: 3[0-1] | [1-2]\d | 0[1-9] | [1-9] | " "[1-9]
DayField(p) ==
  \/ Len(p) = 2 /\ p[1] = "3" /\ p[2] \in {"0", "1"}
  \/ Len(p) = 2 /\ p[1] \in {"1", "2"} /\ IsDigit(p[2])
  \/ Len(p) = 2 /\ p[1] \in {"0", " "} /\ IsDigit(p[2]) /\ p[2] # "0"
  \/ Len(p) = 1 /\ IsDigit(p[1]) /\ p[1] # "0"

RECURSIVE FieldVal(_)
FieldVal(p) ==
  IF p = << >> THEN 0
  ELSE IF p[Len(p)] = " " THEN 0
  ELSE 10 * FieldVal(SubSeq(p, 1, Len(p) - 1)) + DigitVal(p[Len(p)])

NoDate == << 0, 0, 0 >>

\* the date strptime returns, NoDate when it raises ValueError
Strptime(s) ==
  LET parts == SplitAll(s, DateSeparator)
  IN  IF Len(parts) # 3 THEN NoDate
      ELSE IF ~(YearField(parts[1]) /\ MonthField(parts[2]) /\ DayField(parts[3]))
           THEN NoDate
      ELSE LET y == FieldVal(parts[1])
               m == FieldVal(parts[2])
               d == FieldVal(parts[3])
           IN  IF y >= 1 /\ d <= DaysIn(y, m) THEN << y, m, d >> ELSE NoDate

TwoDigits(n) == << Digits[((n \div 10) % 10) + 1], Digits[(n % 10) + 1] >>

\* date.strftime("%Y-%m-%d") for a four-digit year
Strftime(dt) ==
  TwoDigits(dt[1] \div 100) \o TwoDigits(dt[1] % 100) \o << DateSeparator >>
    \o TwoDigits(dt[2]) \o << DateSeparator >> \o TwoDigits(dt[3])

\* chronological order of two dates, for the properties
DateBefore(a, b) ==
  \/ a[1] < b[1]
  \/ a[1] = b[1] /\ a[2] < b[2]
  \/ a[1] = b[1] /\ a[2] = b[2] /\ a[3] < b[3]

(***************************************************************************)
(* Program constants of downloader/constants.py.                           *)
(***************************************************************************)
T10K == << "1", "0", "-", "K" >>
T10KA == << "1", "0", "-", "K", "/", "A" >>
T8K == << "8", "-", "K" >>
T8KA == << "8", "-", "K", "/", "A" >>
\* a filing type the package does not support
TBAD == << "x" >>

\* constants.SUPPORTED_FILINGS (the members the model uses)
SUPPORTED_FILINGS == { T10K, T8K }

\* constants.FILING_DETAILS_FILENAME_STEM
FILING_DETAILS_FILENAME_STEM ==
  << "f", "i", "l", "i", "n", "g", "-", "d", "e", "t", "a", "i", "l", "s" >>

\* constants.FILING_FULL_SUBMISSION_FILENAME
FILING_FULL_SUBMISSION_FILENAME ==
  << "f", "u", "l", "l", "-", "s", "u", "b", "m", "i", "s", "s", "i", "o", "n",
     ".", "t", "x", "t" >>

\* constants.SEC_EDGAR_ARCHIVES_BASE_URL, kept as one token
SEC_EDGAR_ARCHIVES_BASE_URL == << "https://www.sec.gov/Archives/edgar/data" >>

\* sys.maxsize, the cap when count_of_filings is None: larger than any list
\* (2^63 - 1 in CPython, here the largest integer TLC holds)
SysMaxsize == 2147483647

(***************************************************************************)
(* Fetcher.get_indexed: validation of the arguments.                       *)
(***************************************************************************)
NoStr == << >>

\* an argument that is None, a str, or a value of another type
NoneArg == [kind |-> "none", s |-> NoStr]
StrArg(s) == [kind |-> "str", s |-> s]
OtherArg == [kind |-> "other", s |-> NoStr]

\* validate_date_format: the exception it raises, "ok" when it returns
validate_date_format(d) ==
  IF d.kind # "str" THEN "TypeError"
  ELSE IF Strptime(d.s) = NoDate THEN "ValueError"
  ELSE "ok"

\* count_of_filings after lines 165-168
CountOf(a) == IF a.count.given THEN a.count.n ELSE SysMaxsize

\* after, before as the strings get_indexed uses from line 190 on
AfterOf(a) ==
  IF a.after.kind = "none" THEN Strftime(DEFAULT_AFTER_DATE) ELSE a.after.s

BeforeOf(a) ==
  IF a.before.kind = "none" THEN Strftime(DEFAULT_BEFORE_DATE) ELSE a.before.s

\* line 179: after < DEFAULT_AFTER_DATE.strftime(DATE_FORMAT_TOKENS)
AfterTooEarly(after) == StrLess(after, Strftime(DEFAULT_AFTER_DATE))

\* line 190: after > before
AfterExceedsBefore(after, before) == StrLess(before, after)

\* the exception get_indexed raises at lines 165-204, "none" when it goes on
ValidationError(a) ==
  IF a.count.given /\ a.count.n < 1 THEN "ValueError:count"
  ELSE IF a.after.kind # "none" /\ validate_date_format(a.after) # "ok"
       THEN "InvalidDate:after"
  ELSE IF a.after.kind # "none" /\ AfterTooEarly(a.after.s)
       THEN "ValueError:too_early"
  ELSE IF a.before.kind # "none" /\ validate_date_format(a.before) # "ok"
       THEN "InvalidDate:before"
  ELSE IF AfterExceedsBefore(AfterOf(a), BeforeOf(a))
       THEN "ValueError:range"
  ELSE IF a.filing \notin SUPPORTED_FILINGS THEN "ValueError:filing"
  ELSE IF ~a.query_is_str THEN "TypeError:query"
  ELSE "none"

(***************************************************************************)
(* Search hits and build_filing_metadata_from_hit.                         *)
(***************************************************************************)
Hit(id, ciks, ft) ==
  [id |-> id, ciks |-> ciks, file_type |-> ft]

\* the metadata of a hit whose _id has two parts and whose CIK list is not empty
FilingMetadata(hit) ==
  LET parts == Split1(hit.id, ":")
      accession_number == parts[1]
      name == parts[2]
      cik == hit.ciks[Len(hit.ciks)]
      accession_number_no_dashes == StrReplace(accession_number, << "-" >>, << >>, 2)
      submission_base_url ==
        SEC_EDGAR_ARCHIVES_BASE_URL \o << "/", cik, "/" >> \o accession_number_no_dashes
      extension ==
        StrReplace(PathSuffix(name), << "h", "t", "m" >>, << "h", "t", "m", "l" >>, -1)
  IN  [accession_number |-> accession_number,
       full_submission_url |->
         submission_base_url \o << "/" >> \o accession_number \o << ".", "t", "x", "t" >>,
       filing_details_url |-> submission_base_url \o << "/" >> \o name,
       filing_details_filename |-> FILING_DETAILS_FILENAME_STEM \o extension]

\* the exception build_filing_metadata_from_hit raises on a hit, "none" if none
BuildError(hit) ==
  IF Len(Split1(hit.id, ":")) # 2 THEN "ValueError"
  ELSE IF hit.ciks = << >> THEN "IndexError"
  ELSE "none"

\* line 137
IsAmend(hit_filing_type) == LastChars(hit_filing_type, 2) = << "/", "A" >>

\* the filter without the workaround of lines 141-144
HitPassesNoTypeCheck(hit_filing_type, filing_type, include_amends) ==
  ~(~include_amends /\ IsAmend(hit_filing_type))

\* lines 137-144: the hit is not skipped
HitPasses(hit_filing_type, filing_type, include_amends) ==
  LET is_amend == IsAmend(hit_filing_type)
  IN  /\ ~(~include_amends /\ is_amend)
      /\ ~(~is_amend /\ hit_filing_type # filing_type)

\* the loop without the return of lines 149-150
CapReachedNever(filings, cap) == FALSE

\* line 149: the cap is reached, return at once
CapReached(filings, cap) == Len(filings) = cap

HitEvent(k, out) == [ev |-> "hit", n |-> k, role |-> "search", out |-> out, len |-> 0]

\* lines 134-150: the for loop over the hits of one page. from is the number of
\* hits of the result set before this page. The result: the list, the hits
\* examined, and how the loop ended ("page_done", "return" or an exception).
RECURSIVE ProcessHits(_, _, _, _, _, _)
ProcessHits(hits, from, filings, cap, filing_type, include_amends) ==
  IF hits = << >>
  THEN [filings |-> filings, events |-> << >>, out |-> "page_done"]
  ELSE LET hit == Head(hits)
           k == from + 1
       IN  IF ~hit.file_type.present
           THEN [filings |-> filings, events |-> << HitEvent(k, "KeyError") >>,
                 out |-> "KeyError"]
           ELSE IF ~HitPasses(hit.file_type.s, filing_type, include_amends)
           THEN LET r == ProcessHits(Tail(hits), k, filings, cap, filing_type,
                                     include_amends)
                IN  [r EXCEPT !.events = << HitEvent(k, "skip") >> \o @]
           ELSE IF BuildError(hit) # "none"
           THEN [filings |-> filings, events |-> << HitEvent(k, BuildError(hit)) >>,
                 out |-> BuildError(hit)]
           ELSE LET added == Append(filings, FilingMetadata(hit))
                IN  IF CapReached(added, cap)
                    THEN [filings |-> added, events |-> << HitEvent(k, "emit") >>,
                          out |-> "return"]
                    ELSE LET r == ProcessHits(Tail(hits), k, added, cap,
                                              filing_type, include_amends)
                         IN  [r EXCEPT !.events = << HitEvent(k, "emit") >> \o @]

\* the count as the length of the list
get_number_of_filings(filings) == Len(filings)

\* get_number_of_unique_filings
get_number_of_unique_filings(filings) ==
  Cardinality({ filings[i].accession_number : i \in 1..Len(filings) })

(***************************************************************************)
(* The state of one get_indexed call and of its environment.               *)
(***************************************************************************)
VARIABLES
  pc,               \* "idle", "search", "fetch", "done", "raised", "pure", "built"
  call,             \* the arguments of the call
  remote,           \* the hits the search service holds for the query, in order
  filings_to_fetch, \* the list of FilingMetadata
  start_index,      \* get_filing_urls_to_download: offset of the next page
  query_size,       \* get_filing_urls_to_download: query.size read last
  idx,              \* download_filings: position in filings_to_fetch
  role,             \* download_filings: the document fetched next
  disk,             \* the files written, as << accession number, file name >>
  dest_created,     \* the destination directory was created by the call
  trace,            \* the requests, the hits examined and the sleeps, in order
  result,           \* the value get_indexed returned, -1 before
  err               \* the exception get_indexed raised, "none" if none

vars ==
  << pc, call, remote, filings_to_fetch, start_index, query_size, idx, role,
     disk, dest_created, trace, result, err >>

Present(s) == [present |-> TRUE, s |-> s]
Missing == [present |-> FALSE, s |-> NoStr]

Acc1 == << "1", "-", "0", "-", "1" >>
Acc2 == << "1", "-", "0", "-", "2" >>

\* the hits a response may hold
HitOriginal == Hit(Acc1 \o << ":", "a", ".", "h", "t", "m" >>, << "7" >>, Present(T10K))
HitAmended == Hit(Acc1 \o << ":", "b", ".", "h", "t", "m" >>, << "7" >>, Present(T10KA))
HitOtherType == Hit(Acc2 \o << ":", "c", ".", "t", "x", "t" >>, << "7" >>, Present(T8K))
HitOtherAmend == Hit(Acc2 \o << ":", "d", ".", "t", "x", "t" >>, << "3", "7" >>, Present(T8KA))
HitNoColon == Hit(Acc2, << "7" >>, Present(T10K))

HitUniverse == { HitOriginal, HitAmended, HitOtherType, HitOtherAmend, HitNoColon }

RECURSIVE SeqsUpTo(_, _)
SeqsUpTo(S, n) ==
  IF n = 0 THEN { << >> }
  ELSE LET shorter == SeqsUpTo(S, n - 1)
       IN  shorter \cup { Append(q, x) : q \in shorter, x \in S }

Remotes == SeqsUpTo(HitUniverse, MaxRemote)

NoCall ==
  [filing |-> NoStr, count |-> [given |-> FALSE, n |-> 0], after |-> NoneArg,
   before |-> NoneArg, amends |-> FALSE, details |-> FALSE, query_is_str |-> TRUE,
   dest_exists |-> FALSE]

\* the calls of the pipeline specification; dest_exists tells whether the
\* destination directory exists when the call is made (line 162)
PipelineCalls ==
  [filing : { T10K },
   count : [given : { TRUE }, n : 0..MaxCount],
   after : { NoneArg }, before : { NoneArg },
   amends : BOOLEAN, details : BOOLEAN, query_is_str : { TRUE },
   dest_exists : { FALSE }]

Init ==
  /\ pc = "idle"
  /\ call = NoCall
  /\ remote \in Remotes
  /\ filings_to_fetch = << >>
  /\ start_index = 0
  /\ query_size = 0
  /\ idx = 1
  /\ role = "submission"
  /\ disk = { }
  /\ dest_created = FALSE
  /\ trace = << >>
  /\ result = -1
  /\ err = "none"

(***************************************************************************)
(* Fetcher.get_indexed, lines 160-204: the destination directory is made  *)
(* unless it exists, then the arguments are validated.                     *)
(***************************************************************************)
Call(a) ==
  /\ pc = "idle"
  /\ call' = a
  /\ dest_created' = ~a.dest_exists
  /\ LET raised == ValidationError(a)
     IN  IF raised # "none"
         THEN pc' = "raised" /\ err' = raised
         ELSE pc' = "search" /\ err' = err
  /\ UNCHANGED << remote, filings_to_fetch, start_index, query_size, idx, role,
                  disk, trace, result >>

(***************************************************************************)
(* get_filing_urls_to_download: one turn of the while loop (lines 99-158). *)
(***************************************************************************)
\* the shapes of a response body that holds an "error" key
ErrorShapes ==
  { "reason", "root_cause_empty", "root_cause_missing", "reason_missing",
    "error_not_mapping" }

Response(kind, shape, n, size) ==
  [kind |-> kind, shape |-> shape, n |-> n, size |-> size]

\* what the service may answer to one search request: no answer, a non-2xx
\* status, a body with an "error" key, or a page of up to n hits that reports
\* query.size = size
SearchResponses ==
  { Response("ConnectionError", "", 0, 0), Response("HTTPError", "", 0, 0) }
    \cup { Response("error_body", sh, 0, 0) : sh \in ErrorShapes }
    \cup { Response("ok", "", n, z) : n \in 1..MaxPage, z \in 0..MaxPage }

\* lines 111-126: the exception raised for a body with an "error" key
ErrorBodyFailure(shape) ==
  IF shape = "error_not_mapping" THEN "TypeError" ELSE "EdgarSearchApiError"

\* a request whose failures are swallowed and read as the end of the results
SearchFailureSwallowed(resp) == "none"

\* lines 103-126: the exception the request raises, "none" when hits are read
SearchFailure(resp) ==
  IF resp.kind = "ConnectionError" THEN "ConnectionError"
  ELSE IF resp.kind = "HTTPError" THEN "HTTPError"
  ELSE IF resp.kind = "error_body" THEN ErrorBodyFailure(resp.shape)
  ELSE "none"

\* hits.hits of the response to a request with "from": from
PageOf(from, n) ==
  IF from >= Len(remote) THEN << >>
  ELSE SubSeq(remote, from + 1, MinOf(from + n, Len(remote)))

\* a search request with "from": from, how it ended and the hits it returned
PostEvent(from, out, len) ==
  [ev |-> "post", n |-> from, role |-> "search", out |-> out, len |-> len]
SleepEvent == [ev |-> "sleep", n |-> 0, role |-> "", out |-> "", len |-> 0]
GetEvent(i, r, out) == [ev |-> "get", n |-> i, role |-> r, out |-> out, len |-> 0]

Posts == { i \in 1..Len(trace) : trace[i].ev = "post" }
Gets == { i \in 1..Len(trace) : trace[i].ev = "get" }

\* a turn that adds one more than the size the response reported
AdvanceStartIndexPastOne(start, size) == start + size + 1

\* line 155: start_index += query_size
AdvanceStartIndex(start, size) == start + size

\* one turn of the loop, answered by one of responses
SearchTurn(responses) ==
  /\ pc = "search"
  /\ IF ~(Len(filings_to_fetch) < CountOf(call))
     THEN \* line 99 is false: line 160
          /\ pc' = "fetch"
          /\ UNCHANGED << filings_to_fetch, start_index, query_size, trace, err >>
     ELSE /\ Cardinality(Posts) < MaxSearch
          /\ \E resp \in responses :
               LET hits == PageOf(start_index, resp.n)
                   post == PostEvent(start_index, resp.kind, Len(hits))
                   r == ProcessHits(hits, start_index, filings_to_fetch,
                                    CountOf(call), call.filing, call.amends)
               IN  IF SearchFailure(resp) # "none"
                   THEN /\ pc' = "raised"
                        /\ err' = SearchFailure(resp)
                        /\ trace' = Append(trace, post)
                        /\ UNCHANGED << filings_to_fetch, start_index, query_size >>
                   ELSE IF hits = << >>
                   THEN \* line 132: break, then line 160
                        /\ pc' = "fetch"
                        /\ trace' = Append(trace, post)
                        /\ UNCHANGED << filings_to_fetch, start_index, query_size, err >>
                   ELSE IF r.out = "return"
                   THEN \* line 150
                        /\ pc' = "fetch"
                        /\ filings_to_fetch' = r.filings
                        /\ trace' = Append(trace, post) \o r.events
                        /\ UNCHANGED << start_index, query_size, err >>
                   ELSE IF r.out = "page_done"
                   THEN \* lines 154-158
                        /\ pc' = "search"
                        /\ filings_to_fetch' = r.filings
                        /\ query_size' = resp.size
                        /\ start_index' = AdvanceStartIndex(start_index, resp.size)
                        /\ trace' = Append(trace, post) \o r.events \o << SleepEvent >>
                        /\ err' = err
                   ELSE \* a hit raised
                        /\ pc' = "raised"
                        /\ err' = r.out
                        /\ filings_to_fetch' = r.filings
                        /\ trace' = Append(trace, post) \o r.events
                        /\ UNCHANGED << start_index, query_size >>
  /\ UNCHANGED << call, remote, idx, role, disk, dest_created, result >>

SearchPage == SearchTurn(SearchResponses)

(***************************************************************************)
(* download_filings and download_and_save_filing.                          *)
(***************************************************************************)
\* what a document request may end in: a 2xx answer, a non-2xx status
\* (raise_for_status raises HTTPError), no answer (requests.get raises)
FetchOutcomes == { "ok", "HTTPError", "ConnectionError" }

\* download_filings without its try/except
ExceptNothing(outcome) == FALSE

\* lines 253, 270: except requests.exceptions.HTTPError
ExceptHTTPError(outcome) == outcome = "HTTPError"

\* lines 220-227, below {download_folder}/{ROOT}/{ticker_or_cik}/{filing_type}
SavePath(accession_number, save_filename) == << accession_number, save_filename >>

\* download_and_save_filing: the request, then the write and the sleep
download_and_save_filing(i, r, save_path, outcome) ==
  /\ trace' = IF outcome = "ok"
              THEN trace \o << GetEvent(i, r, outcome), SleepEvent >>
              ELSE Append(trace, GetEvent(i, r, outcome))
  /\ disk' = IF outcome = "ok" THEN disk \cup { save_path } ELSE disk

\* lines 244-257
FetchSubmission ==
  /\ pc = "fetch" /\ role = "submission" /\ idx <= Len(filings_to_fetch)
  /\ \E outcome \in FetchOutcomes :
       LET filing == filings_to_fetch[idx]
       IN  /\ download_and_save_filing(idx, "submission",
                SavePath(filing.accession_number, FILING_FULL_SUBMISSION_FILENAME),
                outcome)
           /\ IF outcome = "ok" \/ ExceptHTTPError(outcome)
              THEN /\ pc' = pc /\ err' = err
                   /\ IF call.details
                      THEN role' = "details" /\ idx' = idx
                      ELSE role' = role /\ idx' = idx + 1
              ELSE /\ pc' = "raised" /\ err' = outcome
                   /\ UNCHANGED << role, idx >>
  /\ UNCHANGED << call, remote, filings_to_fetch, start_index, query_size,
                  dest_created, result >>

\* lines 259-274
FetchDetails ==
  /\ pc = "fetch" /\ role = "details" /\ idx <= Len(filings_to_fetch)
  /\ \E outcome \in FetchOutcomes :
       LET filing == filings_to_fetch[idx]
       IN  /\ download_and_save_filing(idx, "details",
                SavePath(filing.accession_number, filing.filing_details_filename),
                outcome)
           /\ IF outcome = "ok" \/ ExceptHTTPError(outcome)
              THEN /\ pc' = pc /\ err' = err
                   /\ role' = "submission" /\ idx' = idx + 1
              ELSE /\ pc' = "raised" /\ err' = outcome
                   /\ UNCHANGED << role, idx >>
  /\ UNCHANGED << call, remote, filings_to_fetch, start_index, query_size,
                  dest_created, result >>

\* get_indexed, line 225
Return ==
  /\ pc = "fetch" /\ idx > Len(filings_to_fetch)
  /\ pc' = "done"
  /\ result' = get_number_of_unique_filings(filings_to_fetch)
  /\ UNCHANGED << call, remote, filings_to_fetch, start_index, query_size, idx,
                  role, disk, dest_created, trace, err >>

\* a call of get_indexed with arguments of the pipeline specification
CallPipeline == pc = "idle" /\ \E a \in PipelineCalls : Call(a)

Next ==
  \/ CallPipeline
  \/ SearchPage
  \/ FetchSubmission
  \/ FetchDetails
  \/ Return

Spec == Init /\ [][Next]_vars

(***************************************************************************)
(* The same call against a service that pages as it says: every page holds *)
(* query.size hits, the last page of the result set what is left.          *)
(***************************************************************************)
PagedResponses ==
  { r \in SearchResponses : r.kind = "ok" => (r.n = r.size /\ r.size >= 1) }

SearchPagePaged == SearchTurn(PagedResponses)

NextPaged ==
  CallPipeline \/ SearchPagePaged \/ FetchSubmission \/ FetchDetails \/ Return

SpecPaged == Init /\ [][NextPaged]_vars

(***************************************************************************)
(* The validation of get_indexed over many argument values, followed by    *)
(* the same pipeline on a one-hit result set.                              *)
(***************************************************************************)
DateYears == { << "1", "9", "9", "9" >>, << "2", "0", "2", "0" >> }
DateMonths == { << "2" >>, << "9" >>, << "0", "9" >>, << "1", "0" >> }
DateDays == { << "1" >>, << "0", "1" >>, << "3", "0" >> }

DateStrings ==
  { y \o << "-" >> \o m \o << "-" >> \o d : y \in DateYears, m \in DateMonths, d \in DateDays }
    \cup { << "2", "0", "2", "0", "/", "1", "0", "/", "0", "1" >> }

DateArgs == { NoneArg, OtherArg } \cup { StrArg(d) : d \in DateStrings }

ValidationCalls ==
  [filing : { T10K, TBAD },
   count : { [given |-> FALSE, n |-> 0], [given |-> TRUE, n |-> 0],
             [given |-> TRUE, n |-> 1] },
   after : DateArgs, before : DateArgs,
   amends : { FALSE }, details : { TRUE }, query_is_str : BOOLEAN,
   dest_exists : BOOLEAN]

InitValidation ==
  /\ pc = "idle"
  /\ call = NoCall
  /\ remote = << HitOriginal >>
  /\ filings_to_fetch = << >>
  /\ start_index = 0
  /\ query_size = 0
  /\ idx = 1
  /\ role = "submission"
  /\ disk = { }
  /\ dest_created = FALSE
  /\ trace = << >>
  /\ result = -1
  /\ err = "none"

\* a call of get_indexed with arguments of the validation specification
CallValidation == pc = "idle" /\ \E a \in ValidationCalls : Call(a)

NextValidation ==
  \/ CallValidation
  \/ SearchPage
  \/ FetchSubmission
  \/ FetchDetails
  \/ Return

SpecValidation == InitValidation /\ [][NextValidation]_vars

(***************************************************************************)
(* build_filing_metadata_from_hit over many details filenames.             *)
(***************************************************************************)
NameChars == { ".", "h", "t", "m", "l" }

NonEmptySeqsUpTo(S, n) == SeqsUpTo(S, n) \ { << >> }

DetailsNames == NonEmptySeqsUpTo(NameChars, MaxName)

InitMetadata ==
  /\ pc = "pure"
  /\ call = NoCall
  /\ remote \in { << Hit(Acc1 \o << ":" >> \o name, << "7" >>, Present(T10K)) >> :
                    name \in DetailsNames }
  /\ filings_to_fetch = << >>
  /\ start_index = 0
  /\ query_size = 0
  /\ idx = 1
  /\ role = "submission"
  /\ disk = { }
  /\ dest_created = FALSE
  /\ trace = << >>
  /\ result = -1
  /\ err = "none"

\* one call of build_filing_metadata_from_hit on the hit
BuildMetadata ==
  /\ pc = "pure"
  /\ IF BuildError(remote[1]) # "none"
     THEN pc' = "raised" /\ err' = BuildError(remote[1])
          /\ UNCHANGED filings_to_fetch
     ELSE pc' = "built" /\ err' = err
          /\ filings_to_fetch' = << FilingMetadata(remote[1]) >>
  /\ UNCHANGED << call, remote, start_index, query_size, idx, role, disk,
                  dest_created, trace, result >>

NextMetadata == BuildMetadata

SpecMetadata == InitMetadata /\ [][NextMetadata]_vars

(***************************************************************************)
(* Properties.                                                             *)
(***************************************************************************)
IsRequest(e) == e.ev \in { "post", "get" }

\* the document requests of the call, in order
GetSeq == SelectSeq(trace, LAMBDA e : e.ev = "get")

\* the documents download_filings fetches per descriptor
DocsPerFiling == IF call.details THEN 2 ELSE 1

\* the descriptor and the document the p-th document request is due to fetch
DueIdx(p) == ((p - 1) \div DocsPerFiling) + 1
DueRole(p) ==
  IF call.details /\ (p % 2 = 0) THEN "details" ELSE "submission"

\* the file a document request writes to
PathOfGet(e) ==
  SavePath(filings_to_fetch[e.n].accession_number,
           IF e.role = "submission" THEN FILING_FULL_SUBMISSION_FILENAME
           ELSE filings_to_fetch[e.n].filing_details_filename)

\* every failed document request so far was skipped: the requests made are the
\* due ones in order with none left out, every answered one has its file, the
\* loop stands at the next due document, and at the end all were requested
FetchesIsolated ==
  LET gets == GetSeq
  IN  /\ \A p \in 1..Len(gets) :
           /\ gets[p].n = DueIdx(p) /\ gets[p].role = DueRole(p)
           /\ gets[p].out = "ok" => PathOfGet(gets[p]) \in disk
      /\ Len(gets) > 0 => pc \in { "fetch", "done" }
      /\ pc = "fetch" /\ idx <= Len(filings_to_fetch) =>
           idx = DueIdx(Len(gets) + 1) /\ role = DueRole(Len(gets) + 1)
      /\ pc = "done" => Len(gets) = Len(filings_to_fetch) * DocsPerFiling

OnlyHTTPStatusFailures ==
  \A i \in Gets : trace[i].out \in { "ok", "HTTPError" }

\* C1: in download_filings, whatever document requests end in an HTTP error
\* status, every descriptor has its submission requested, and its details when
\* details are included, in order; every answered request has its file
\* written; the loop reaches the end of the list.
C1_HTTPErrorIsolated == OnlyHTTPStatusFailures => FetchesIsolated

\* C1 witness: the submission of the first descriptor failed with an HTTP
\* status, its details were fetched and written, the second descriptor was
\* fetched too, and the call returned.
C1_Witness ==
  /\ pc = "done" /\ call.details /\ Len(filings_to_fetch) = 2
  /\ Len(GetSeq) = 4
  /\ GetSeq[1].out = "HTTPError" /\ GetSeq[2].out = "ok"
  /\ GetSeq[3].out = "ok" /\ GetSeq[4].out = "HTTPError"
  /\ Cardinality(disk) = 2

\* C2: a failed document request of any kind (a refused connection or a
\* timeout as well as an HTTP error status) never leaves download_filings: the
\* remaining documents and descriptors are still requested.
C2_AnyFetchFailureIsolated == FetchesIsolated

\* the hits emitted among the first i events
EmitsUpTo(i) ==
  Cardinality({ j \in 1..i : trace[j].ev = "hit" /\ trace[j].out = "emit" })

\* C3: once the list reaches the cap in the middle of a page, the function
\* has returned: no search request and no hit follows in the call.
C3_ReturnAtCap ==
  \A i \in 1..Len(trace) :
    (trace[i].ev = "hit" /\ trace[i].out = "emit" /\ EmitsUpTo(i) = CountOf(call))
      => /\ pc # "search"
         /\ \A j \in (i + 1)..Len(trace) : trace[j].ev \notin { "post", "hit" }

\* C3 witness: the cap was reached on the first hit of a page that held a
\* second hit, the result set had hits left, and the call went on to return.
C3_Witness ==
  /\ pc = "done" /\ CountOf(call) = 1
  /\ Len(remote) >= 2
  /\ Len(trace) >= 2
  /\ trace[1].ev = "post" /\ trace[1].len >= 2
  /\ trace[2].ev = "hit" /\ trace[2].out = "emit"
  /\ Cardinality(Posts) = 1

\* C4: between two consecutive requests of a call (search pages and document
\* fetches alike, whether the earlier one succeeded or failed) the call sleeps
\* for the rate-limit interval.
C4_SleepBetweenRequests ==
  \A i \in 1..Len(trace) : \A j \in (i + 1)..Len(trace) :
    (IsRequest(trace[i]) /\ IsRequest(trace[j]))
      => \E k \in (i + 1)..(j - 1) : trace[k].ev = "sleep"

\* the accession number of a hit: its _id up to the first colon
AccessionOfHit(hit) == SubSeq(hit.id, 1, IndexOf(hit.id, ":") - 1)

\* the accession numbers of the hits that became descriptors in the call
DiscoveredAccessions ==
  { AccessionOfHit(remote[trace[i].n]) :
      i \in { j \in 1..Len(trace) : trace[j].ev = "hit" /\ trace[j].out = "emit" } }

\* C5: the value get_indexed returns is the number of distinct accession
\* numbers among the descriptors discovered in the call, whatever the
\* document requests ended in.
C5_UniqueCount == pc = "done" => result = Cardinality(DiscoveredAccessions)

\* C5 witness: two descriptors share one accession number, a document request
\* failed, and the call returned 1.
C5_Witness ==
  /\ pc = "done" /\ Len(filings_to_fetch) = 2 /\ result = 1
  /\ \E p \in 1..Len(GetSeq) : GetSeq[p].out = "HTTPError"

\* a search request failed, or a hit could not be read
DiscoveryFailed ==
  \E i \in 1..Len(trace) :
    \/ trace[i].ev = "post" /\ trace[i].out # "ok"
    \/ trace[i].ev = "hit" /\ trace[i].out \notin { "emit", "skip" }

\* C6: when discovery fails on any page, get_indexed raises and returns no
\* count, requests no document and writes no file.
C6_DiscoveryFailureAborts ==
  DiscoveryFailed => pc = "raised" /\ result = -1 /\ Gets = { } /\ disk = { }

\* C6 witness: the second page failed after the first page had yielded a
\* descriptor.
C6_Witness ==
  /\ pc = "raised" /\ DiscoveryFailed
  /\ Cardinality(Posts) = 2 /\ Len(filings_to_fetch) >= 1

\* the claim's reading of an invalid input: dates are compared as dates
DateOfArg(d) == IF d.kind = "str" THEN Strptime(d.s) ELSE NoDate
AfterDateOf(a) == IF a.after.kind = "none" THEN DEFAULT_AFTER_DATE ELSE DateOfArg(a.after)
BeforeDateOf(a) == IF a.before.kind = "none" THEN DEFAULT_BEFORE_DATE ELSE DateOfArg(a.before)

InvalidInput(a) ==
  \/ a.count.given /\ a.count.n < 1
  \/ a.after.kind # "none" /\ DateOfArg(a.after) = NoDate
  \/ a.before.kind # "none" /\ DateOfArg(a.before) = NoDate
  \/ DateBefore(AfterDateOf(a), DEFAULT_AFTER_DATE)
  \/ DateBefore(BeforeDateOf(a), AfterDateOf(a))
  \/ a.filing \notin SUPPORTED_FILINGS
  \/ ~a.query_is_str

\* C7: a call with an invalid input raises before any network activity: it
\* makes no search request and no document request, and returns no count.
C7_InvalidInputNoNetwork ==
  (pc # "idle" /\ InvalidInput(call))
    => Posts = { } /\ Gets = { } /\ pc # "done"

\* the filter as the claim states it
EndsInSlashA(t) == Len(t) >= 2 /\ t[Len(t) - 1] = "/" /\ t[Len(t)] = "A"
EmitCase(t, requested, include_amends) ==
  \/ EndsInSlashA(t) /\ include_amends
  \/ ~EndsInSlashA(t) /\ t = requested

\* C8: a well-formed hit examined by the loop becomes a descriptor exactly
\* when its file type ends in "/A" and amendments are included, or does not
\* end in "/A" and equals the requested filing type.
C8_FilterCases ==
  \A i \in 1..Len(trace) :
    (trace[i].ev = "hit" /\ trace[i].out \in { "emit", "skip" })
      => (trace[i].out = "emit"
            <=> EmitCase(remote[trace[i].n].file_type.s, call.filing, call.amends))

\* C8 witness: with amendments included, a hit of another type was skipped
\* and an amendment was emitted.
C8_Witness ==
  /\ call.amends
  /\ \E i \in 1..Len(trace) :
       trace[i].ev = "hit" /\ trace[i].out = "skip"
         /\ remote[trace[i].n].file_type.s = T8K
  /\ \E i \in 1..Len(trace) :
       trace[i].ev = "hit" /\ trace[i].out = "emit"
         /\ remote[trace[i].n].file_type.s = T10KA

\* both dates are given, well formed and inside the supported range, and the
\* other arguments are valid
DatesWellFormed(a) ==
  /\ a.after.kind = "str" /\ a.before.kind = "str"
  /\ DateOfArg(a.after) # NoDate /\ DateOfArg(a.before) # NoDate
  /\ ~DateBefore(DateOfArg(a.after), DEFAULT_AFTER_DATE)
  /\ ~(a.count.given /\ a.count.n < 1)

\* C9: for well-formed dates inside the supported range, the date validation
\* fails with the date-range error exactly when after is later than before,
\* and passes otherwise.
C9_DateRangeChronological ==
  (pc # "idle" /\ DatesWellFormed(call))
    => IF DateBefore(DateOfArg(call.before), DateOfArg(call.after))
       THEN pc = "raised" /\ err = "ValueError:range"
       ELSE err \notin { "ValueError:range", "ValueError:too_early",
                         "InvalidDate:after", "InvalidDate:before" }

HtmSuffix == << ".", "h", "t", "m" >>
HtmlSuffix == << ".", "h", "t", "m", "l" >>

\* the details filename of the hit
DetailsNameOfHit(hit) == SubSeq(hit.id, IndexOf(hit.id, ":") + 1, Len(hit.id))

\* C10: the local details filename is the stem followed by the extension of
\* the hit's details filename, where .htm and .html both give .html and every
\* other extension is kept.
C10_LocalFilename ==
  pc = "built" =>
    LET ext == PathSuffix(DetailsNameOfHit(remote[1]))
    IN  filings_to_fetch[1].filing_details_filename
          = FILING_DETAILS_FILENAME_STEM
              \o (IF ext \in { HtmSuffix, HtmlSuffix } THEN HtmlSuffix ELSE ext)

\* the search requests that ended as out
PostsEnding(out) == { i \in Posts : trace[i].out = out }

\* C11: a search request answered with a non-2xx status makes
\* get_filing_urls_to_download fail with EdgarSearchApiError and with no
\* other kind of error.
C11_StatusFailureIsSearchApiError ==
  PostsEnding("HTTPError") # {}
    => pc = "raised" /\ err = "EdgarSearchApiError"

\* C12: a response body with an "error" key makes get_filing_urls_to_download
\* fail with EdgarSearchApiError whatever the shape of the error value, and
\* the request is the last thing the call does: no hit of that response is
\* processed.
C12_ErrorBodyIsSearchApiError ==
  PostsEnding("error_body") # {}
    => /\ pc = "raised"
       /\ err = "EdgarSearchApiError"
       /\ trace[Len(trace)].ev = "post"

\* C13: the page loop of get_filing_urls_to_download ends for every finite
\* result set and every cap of at least 1, whatever query.size the responses
\* report.  The service answers a request from what it is asked, so the loop
\* ends only if no turn brings it back to where it was: every turn that goes
\* on to another request has moved the offset forward or lengthened the list.
C13_PageLoopTerminates ==
  [][(pc = "search" /\ pc' = "search")
       => \/ start_index' > start_index
          \/ Len(filings_to_fetch') > Len(filings_to_fetch)]_vars

\* the latest search request of the call
LastPost == CHOOSE i \in Posts : \A j \in Posts : j <= i

\* C14: the search requests of one call carry strictly increasing offsets:
\* the first has offset 0, the next one to be sent has the offset of the
\* previous request plus the query.size its response reported, and no offset
\* is requested twice.
C14_OffsetsStrictlyIncrease ==
  /\ \A i \in Posts : (\A j \in Posts : i <= j) => trace[i].n = 0
  /\ (pc = "search" /\ Posts # {})
       => start_index = trace[LastPost].n + query_size
  /\ \A i, j \in Posts : i < j => trace[i].n < trace[j].n

\* the hits of the result set that pass the filter, in service order
PassingHits ==
  SelectSeq(remote, LAMBDA h : EmitCase(h.file_type.s, call.filing, call.amends))

\* C15: against a service whose pages hold query.size hits (fewer only on the
\* last page), the list get_filing_urls_to_download returns is, in service
\* order, the first min(cap, M) hits that pass the filter, M being the
\* number of passing hits of the result set: rejected hits do not count, no
\* passing hit is skipped or emitted twice, the list is not longer than the
\* cap.
C15_FirstPassingHitsUpToCap ==
  pc \in { "fetch", "done" } =>
    LET k == MinOf(CountOf(call), Len(PassingHits))
    IN  /\ Len(filings_to_fetch) = k
        /\ \A i \in 1..k : filings_to_fetch[i] = FilingMetadata(PassingHits[i])

\* C15 witness: a call that ended after two pages, the first one with a
\* rejected hit only, with a list as long as the cap.
C15_Witness ==
  /\ pc = "done"
  /\ Cardinality(Posts) = 2
  /\ \E i \in 1..Len(trace) :
       trace[i].ev = "hit" /\ trace[i].out = "skip" /\ trace[i].n = 1
  /\ Len(filings_to_fetch) = CountOf(call)
  /\ Len(PassingHits) >= 1

\* C16: two distinct descriptors of the result list never write to the same
\* file path: no file written for one descriptor (submission or details) is
\* written for another one, also when their hits share an accession number.
C16_DescriptorsWriteDisjointFiles ==
  \A g \in Gets : \A h \in Gets :
    ( /\ trace[g].out = "ok" /\ trace[h].out = "ok"
      /\ filings_to_fetch[trace[g].n] # filings_to_fetch[trace[h].n] )
      => PathOfGet(trace[g]) # PathOfGet(trace[h])

\* C17: validation in get_indexed has no side effects: a call that fails
\* validation has created no directory, the destination directory included,
\* and no file.
C17_ValidationFailureLeavesDisk ==
  (pc = "raised" /\ ValidationError(call) # "none")
    => ~dest_created /\ disk = { }

\* the amendment of a filing type
AmendmentOf(t) == t \o << "/", "A" >>

\* C18: every descriptor comes from a hit whose file type is the requested
\* filing type or the amendment of the requested filing type; an amendment
\* of another filing type is never emitted, also with amendments included.
C18_EmittedTypeIsRequested ==
  \A i \in 1..Len(trace) :
    (trace[i].ev = "hit" /\ trace[i].out = "emit")
      => remote[trace[i].n].file_type.s
           \in { call.filing, AmendmentOf(call.filing) }

====
